---------------------------- MODULE Spec2Model ----------------------------
(***************************************************************************)
(* Tender intelligence pipeline of rfp-project: the analysis route with    *)
(* its read-through cache (tender_analysis), the NvI question route with   *)
(* its delete-then-insert replacement (nvi_questions), the proposal route  *)
(* with its seven section agents (proposals), the decoders of generation   *)
(* output, and the priority scoring of NvI questions.                      *)
(***************************************************************************)
EXTENDS Integers, Sequences, FiniteSets, TLC

(***************************************************************************)
(* Text.  A string is a sequence of characters.  A character is a one-     *)
(* symbol TLA+ string; the words the code matches literally ("content",    *)
(* "json", "null", ...) and the fence of three backticks (FENCE) are       *)
(* single symbols.                                                         *)
(***************************************************************************)
Q   == "\""
BS  == "\\"
NL  == "<NL>"
TAB == "<TAB>"
CR  == "<CR>"
SP  == " "
CTL == "<CTL>"
FENCE == "<FENCE>"

Whitespace == {SP, NL, TAB, CR}

Digits == {"0", "1", "2", "3", "4", "5", "6", "7", "8", "9"}

Literals == {"null", "true"}

\* s[i..j] (empty when j < i), as String.prototype.substring(i-1, j)
Sub(s, i, j) == IF j < i THEN <<>> ELSE SubSeq(s, i, j)

StartsWith(s, p) == Len(s) >= Len(p) /\ SubSeq(s, 1, Len(p)) = p

EndsWith(s, p) == Len(s) >= Len(p) /\ SubSeq(s, Len(s) - Len(p) + 1, Len(s)) = p

\* first index >= i whose character is not whitespace, Len(s)+1 if none
RECURSIVE SkipWs(_, _)
SkipWs(s, i) ==
    IF i > Len(s) THEN i
    ELSE IF s[i] \in Whitespace THEN SkipWs(s, i + 1) ELSE i

\* last index <= i whose character is not whitespace, 0 if none
RECURSIVE SkipWsBack(_, _)
SkipWsBack(s, i) ==
    IF i < 1 THEN 0
    ELSE IF s[i] \in Whitespace THEN SkipWsBack(s, i - 1) ELSE i

\* String.prototype.trim
Trim(s) == Sub(s, SkipWs(s, 1), SkipWsBack(s, Len(s)))

\* first index >= i with s[index] = c, 0 if none (indexOf, 1-based)
RECURSIVE IndexFrom(_, _, _)
IndexFrom(s, c, i) ==
    IF i > Len(s) THEN 0
    ELSE IF s[i] = c THEN i ELSE IndexFrom(s, c, i + 1)

(***************************************************************************)
(* JSON values.  Every value is a record [t, v]: t the kind, v a sequence  *)
(* (the characters of a string or number, the members of an object as      *)
(* <<key, value>> pairs, the elements of an array).                        *)
(***************************************************************************)
JStr(chars)  == [t |-> "str", v |-> chars]
JNum(chars)  == [t |-> "num", v |-> chars]
JLit(name)   == [t |-> "lit", v |-> <<name>>]
JObj(pairs)  == [t |-> "obj", v |-> pairs]
JArr(elems)  == [t |-> "arr", v |-> elems]
Undefined    == [t |-> "undefined", v |-> <<>>]

\* a parse step: ok, the value and the index after it
PFail == [ok |-> FALSE, val |-> Undefined, next |-> 0]
POk(val, next) == [ok |-> TRUE, val |-> val, next |-> next]

EscapeOf(c) ==
    CASE c = "n" -> <<NL>>
      [] c = "t" -> <<TAB>>
      [] c = "r" -> <<CR>>
      [] c = Q   -> <<Q>>
      [] c = BS  -> <<BS>>
      [] OTHER   -> <<>>

\* the characters of a string literal whose opening quote is at i-1
RECURSIVE ParseChars(_, _, _)
ParseChars(s, i, acc) ==
    IF i > Len(s) THEN PFail
    ELSE IF s[i] = Q THEN POk(JStr(acc), i + 1)
    ELSE IF s[i] = BS THEN
        IF i + 1 > Len(s) \/ EscapeOf(s[i + 1]) = <<>> THEN PFail
        ELSE ParseChars(s, i + 2, acc \o EscapeOf(s[i + 1]))
    ELSE IF s[i] \in {NL, TAB, CR, CTL} THEN PFail
    ELSE ParseChars(s, i + 1, Append(acc, s[i]))

RECURSIVE ParseDigits(_, _, _)
ParseDigits(s, i, acc) ==
    IF i <= Len(s) /\ s[i] \in Digits THEN ParseDigits(s, i + 1, Append(acc, s[i]))
    ELSE POk(JNum(acc), i)

RECURSIVE ParseValue(_, _)
RECURSIVE ParseMembers(_, _, _)
RECURSIVE ParseElements(_, _, _)

\* the members of an object after "{" or after a ",": "key" : value
ParseMembers(s, i, acc) ==
    LET k == SkipWs(s, i) IN
    IF k > Len(s) \/ s[k] # Q THEN PFail
    ELSE LET key == ParseChars(s, k + 1, <<>>) IN
         IF ~key.ok THEN PFail
         ELSE LET c == SkipWs(s, key.next) IN
              IF c > Len(s) \/ s[c] # ":" THEN PFail
              ELSE LET val == ParseValue(s, c + 1) IN
                   IF ~val.ok THEN PFail
                   ELSE LET e == SkipWs(s, val.next)
                            all == Append(acc, <<key.val.v, val.val>>)
                        IN IF e > Len(s) THEN PFail
                           ELSE IF s[e] = "}" THEN POk(JObj(all), e + 1)
                           ELSE IF s[e] = "," THEN ParseMembers(s, e + 1, all)
                           ELSE PFail

\* the elements of an array after "[" or after a ","
ParseElements(s, i, acc) ==
    LET val == ParseValue(s, i) IN
    IF ~val.ok THEN PFail
    ELSE LET e == SkipWs(s, val.next)
             all == Append(acc, val.val)
         IN IF e > Len(s) THEN PFail
            ELSE IF s[e] = "]" THEN POk(JArr(all), e + 1)
            ELSE IF s[e] = "," THEN ParseElements(s, e + 1, all)
            ELSE PFail

ParseValue(s, i) ==
    LET k == SkipWs(s, i) IN
    IF k > Len(s) THEN PFail
    ELSE IF s[k] = Q THEN ParseChars(s, k + 1, <<>>)
    ELSE IF s[k] = "0" THEN POk(JNum(<<"0">>), k + 1)
    ELSE IF s[k] \in Digits THEN ParseDigits(s, k, <<>>)
    ELSE IF s[k] \in Literals THEN POk(JLit(s[k]), k + 1)
    ELSE IF s[k] = "{" THEN
        LET m == SkipWs(s, k + 1) IN
        IF m <= Len(s) /\ s[m] = "}" THEN POk(JObj(<<>>), m + 1)
        ELSE ParseMembers(s, k + 1, <<>>)
    ELSE IF s[k] = "[" THEN
        LET m == SkipWs(s, k + 1) IN
        IF m <= Len(s) /\ s[m] = "]" THEN POk(JArr(<<>>), m + 1)
        ELSE ParseElements(s, k + 1, <<>>)
    ELSE PFail

\* JSON.parse: [ok |-> FALSE] is the SyntaxError it throws
JSONparse(s) ==
    LET val == ParseValue(s, 1) IN
    IF val.ok /\ SkipWs(s, val.next) > Len(s)
    THEN [ok |-> TRUE, val |-> val.val]
    ELSE [ok |-> FALSE, val |-> Undefined]

(***************************************************************************)
(* Regular-expression steps shared by the decoders.                        *)
(***************************************************************************)
\* s.replace(/^```json\s*/, '') and s.replace(/^```\s*/, '')
StripOpenFenceJson(s) ==
    IF StartsWith(s, <<FENCE, "json">>) THEN Sub(s, SkipWs(s, 3), Len(s)) ELSE s

StripOpenFence(s) ==
    IF StartsWith(s, <<FENCE>>) THEN Sub(s, SkipWs(s, 2), Len(s)) ELSE s

\* s.replace(/\s*```$/, '')
StripCloseFence(s) ==
    IF EndsWith(s, <<FENCE>>) THEN Sub(s, 1, SkipWsBack(s, Len(s) - 1)) ELSE s

\* the fence removal both routes start with
StripFences(s) ==
    IF StartsWith(s, <<FENCE, "json">>) THEN StripCloseFence(StripOpenFenceJson(s))
    ELSE IF StartsWith(s, <<FENCE>>) THEN StripCloseFence(StripOpenFence(s))
    ELSE s

\* s.replace(/[set]/g, '')
RemoveChars(s, set) == SelectSeq(s, LAMBDA c : c \notin set)

\* s.replace(/[set]/g, rep)
RECURSIVE ReplaceChars(_, _, _)
ReplaceChars(s, set, rep) ==
    IF s = <<>> THEN <<>>
    ELSE (IF Head(s) \in set THEN rep ELSE <<Head(s)>>) \o ReplaceChars(Tail(s), set, rep)

\* s.replace(/\s+/g, ' ')
RECURSIVE CollapseWs(_)
CollapseWs(s) ==
    IF s = <<>> THEN <<>>
    ELSE IF Head(s) \in Whitespace
         THEN <<SP>> \o CollapseWs(Sub(s, SkipWs(s, 1), Len(s)))
         ELSE <<Head(s)>> \o CollapseWs(Tail(s))

QuoteBefore(s, i) == \E j \in 1..(i - 1) : s[j] = Q
QuoteAfter(s, i)  == \E j \in (i + 1)..Len(s) : s[j] = Q

\* s.replace(/(?<="[^"]*?)c(?=[^"]*?")/g, rep): every c with a quote somewhere
\* before it and a quote somewhere after it
RECURSIVE EscapeBetweenQuotesFrom(_, _, _, _)
EscapeBetweenQuotesFrom(s, c, rep, i) ==
    IF i > Len(s) THEN <<>>
    ELSE (IF s[i] = c /\ QuoteBefore(s, i) /\ QuoteAfter(s, i) THEN rep ELSE <<s[i]>>)
         \o EscapeBetweenQuotesFrom(s, c, rep, i + 1)

EscapeBetweenQuotes(s, c, rep) == EscapeBetweenQuotesFrom(s, c, rep, 1)

\* the lookahead (?![^"]*"[^"]*:) at index i fails to hold when the text after
\* i has a quote and a colon between that quote and the next one
KeyFollows(s, i) ==
    LET q1 == IndexFrom(s, Q, i + 1) IN
    IF q1 = 0 THEN FALSE
    ELSE LET q2 == IndexFrom(s, Q, q1 + 1)
             end == IF q2 = 0 THEN Len(s) ELSE q2 - 1
         IN \E j \in (q1 + 1)..end : s[j] = ":"

\* s.replace(/c(?![^"]*"[^"]*:)/g, ' ')
RECURSIVE BlankUnlessKeyFollowsFrom(_, _, _)
BlankUnlessKeyFollowsFrom(s, c, i) ==
    IF i > Len(s) THEN <<>>
    ELSE (IF s[i] = c /\ ~KeyFollows(s, i) THEN <<SP>> ELSE <<s[i]>>)
         \o BlankUnlessKeyFollowsFrom(s, c, i + 1)

BlankUnlessKeyFollows(s, c) == BlankUnlessKeyFollowsFrom(s, c, 1)

\* s.replace(/([^\\])c/g, '$1' + rep): scanning left to right, a character other
\* than a backslash followed by c; the pair is consumed
RECURSIVE EscapeAfterCharFrom(_, _, _, _)
EscapeAfterCharFrom(s, c, rep, i) ==
    IF i > Len(s) THEN <<>>
    ELSE IF i < Len(s) /\ s[i] # BS /\ s[i + 1] = c
         THEN <<s[i]>> \o rep \o EscapeAfterCharFrom(s, c, rep, i + 2)
         ELSE <<s[i]>> \o EscapeAfterCharFrom(s, c, rep, i + 1)

EscapeAfterChar(s, c, rep) == EscapeAfterCharFrom(s, c, rep, 1)

\* s.replace(/,(\s*[}\]])/g, '$1')
RECURSIVE DropTrailingCommasFrom(_, _)
DropTrailingCommasFrom(s, i) ==
    IF i > Len(s) THEN <<>>
    ELSE LET k == SkipWs(s, i + 1) IN
         IF s[i] = "," /\ k <= Len(s) /\ s[k] \in {"}", "]"}
         THEN Sub(s, i + 1, k) \o DropTrailingCommasFrom(s, k + 1)
         ELSE <<s[i]>> \o DropTrailingCommasFrom(s, i + 1)

DropTrailingCommas(s) == DropTrailingCommasFrom(s, 1)

\* s.replace(/^c/, rep)
ReplaceLeading(s, c, rep) ==
    IF s # <<>> /\ Head(s) = c THEN rep \o Tail(s) ELSE s

\* s.replace(/\\c/g, rep): backslash followed by c
RECURSIVE UnescapeFrom(_, _, _, _)
UnescapeFrom(s, c, rep, i) ==
    IF i > Len(s) THEN <<>>
    ELSE IF i < Len(s) /\ s[i] = BS /\ s[i + 1] = c
         THEN rep \o UnescapeFrom(s, c, rep, i + 2)
         ELSE <<s[i]>> \o UnescapeFrom(s, c, rep, i + 1)

Unescape(s, c, rep) == UnescapeFrom(s, c, rep, 1)

(***************************************************************************)
(* Property access on decoded values.                                      *)
(***************************************************************************)
\* value.key of a decoded value: the last member with that key of an object,
\* undefined for any other value
RECURSIVE GetFrom(_, _, _)
GetFrom(pairs, key, i) ==
    IF i < 1 THEN Undefined
    ELSE IF pairs[i][1] = <<key>> THEN pairs[i][2] ELSE GetFrom(pairs, key, i - 1)

Get(val, key) == IF val.t = "obj" THEN GetFrom(val.v, key, Len(val.v)) ELSE Undefined

\* reading a property of null throws a TypeError
ThrowsOnAccess(val) == val.t = "lit" /\ val.v = <<"null">>

(***************************************************************************)
(* cleanAndParseJSON of the analysis route.                                *)
(***************************************************************************)
\* the index of the "}" closing the "{" at the first call's i, 0 if none
RECURSIVE MatchBrace(_, _, _)
MatchBrace(s, i, braceCount) ==
    IF i > Len(s) THEN 0
    ELSE IF s[i] = "{" THEN MatchBrace(s, i + 1, braceCount + 1)
    ELSE IF s[i] = "}" THEN
        IF braceCount - 1 = 0 THEN i ELSE MatchBrace(s, i + 1, braceCount - 1)
    ELSE MatchBrace(s, i + 1, braceCount)

ExtractObjectSpan(s) ==
    LET firstBrace == IndexFrom(s, "{", 1) IN
    IF firstBrace = 0 THEN s
    ELSE LET lastBrace == MatchBrace(s, firstBrace, 0) IN
         IF lastBrace = 0 THEN s ELSE Sub(s, firstBrace, lastBrace)

\* [ok |-> FALSE] is the exception JSON.parse throws out of the helper
cleanAndParseJSON(content) == JSONparse(ExtractObjectSpan(StripFences(Trim(content))))

(***************************************************************************)
(* cleanJsonResponse and safeJsonParse of the proposal route.              *)
(***************************************************************************)
cleanJsonResponseFallback(content) ==
    Trim(CollapseWs(ReplaceChars(
        StripCloseFence(StripOpenFence(StripCloseFence(StripOpenFenceJson(Trim(content))))),
        {NL, TAB, CR, CTL}, <<SP>>)))

cleanJsonResponse(content) ==
    LET fenced   == StripFences(Trim(content))
        noCtl    == RemoveChars(fenced, {CTL})
        nl       == EscapeBetweenQuotes(noCtl, NL, <<BS, "n">>)
        tab      == EscapeBetweenQuotes(nl, TAB, <<BS, "t">>)
        cr       == EscapeBetweenQuotes(tab, CR, <<BS, "r">>)
        outside  == BlankUnlessKeyFollows(
                        BlankUnlessKeyFollows(BlankUnlessKeyFollows(cr, NL), CR), TAB)
        cleaned  == Trim(CollapseWs(outside))
    IN IF StartsWith(cleaned, <<"{">>) THEN cleaned ELSE cleanJsonResponseFallback(content)

\* first attempt of safeJsonParse: the regex fixes, then JSON.parse
FirstFix(jsonString) ==
    ReplaceLeading(ReplaceLeading(
        DropTrailingCommas(
            EscapeAfterChar(
                EscapeAfterChar(EscapeAfterChar(jsonString, NL, <<BS, "n">>), TAB, <<BS, "t">>),
                CR, <<BS, "r">>)),
        NL, <<BS, "n">>), TAB, <<BS, "t">>)

\* second attempt: every line break and tab escaped (the quote replacements of
\* the source map a quote to itself)
SecondFix(jsonString) ==
    ReplaceChars(ReplaceChars(ReplaceChars(jsonString, {NL}, <<BS, "n">>),
                              {CR}, <<BS, "r">>), {TAB}, <<BS, "t">>)

\* index of the opening quote of the value after the leftmost  "key":\s*"  at or
\* after i, 0 if none
RECURSIVE StringFieldFrom(_, _, _)
StringFieldFrom(s, key, i) ==
    IF i + 3 > Len(s) THEN 0
    ELSE IF Sub(s, i, i + 3) = <<Q, key, Q, ":">>
            /\ SkipWs(s, i + 4) <= Len(s) /\ s[SkipWs(s, i + 4)] = Q
         THEN SkipWs(s, i + 4)
         ELSE StringFieldFrom(s, key, i + 1)

\* the lookahead (?=",\s*"|\n\s*"|\n\s*}) at index e
ContentEndsAt(s, e) ==
    \/ /\ e + 1 <= Len(s) /\ s[e] = Q /\ s[e + 1] = ","
       /\ SkipWs(s, e + 2) <= Len(s) /\ s[SkipWs(s, e + 2)] = Q
    \/ /\ e <= Len(s) /\ s[e] = NL
       /\ SkipWs(s, e + 1) <= Len(s) /\ s[SkipWs(s, e + 1)] \in {Q, "}"}

\* jsonString.match(/"content":\s*"([\s\S]*?)(?=",\s*"|\n\s*"|\n\s*})/)
ContentMatch(s) ==
    LET open == StringFieldFrom(s, "content", 1)
        ends == {e \in (open + 1)..Len(s) : ContentEndsAt(s, e)}
    IN IF open = 0 \/ ends = {} THEN [found |-> FALSE, text |-> <<>>]
       ELSE LET e == CHOOSE x \in ends : \A y \in ends : x <= y
            IN [found |-> TRUE, text |-> Sub(s, open + 1, e - 1)]

\* leftmost  "content":\s*"  followed by a character that is no quote
RECURSIVE NonEmptyContentFrom(_, _)
NonEmptyContentFrom(s, i) ==
    LET open == StringFieldFrom(s, "content", i) IN
    IF open = 0 THEN 0
    ELSE IF open + 1 <= Len(s) /\ s[open + 1] # Q THEN open
    ELSE NonEmptyContentFrom(s, open)

\* jsonString.match(/"content":\s*"([^"]+)/)
FallbackMatch(s) ==
    LET open == NonEmptyContentFrom(s, 1) IN
    IF open = 0 THEN [found |-> FALSE, text |-> <<>>]
    ELSE LET q == IndexFrom(s, Q, open + 1)
         IN [found |-> TRUE, text |-> Sub(s, open + 1, IF q = 0 THEN Len(s) ELSE q - 1)]

\* index of the "[" after the leftmost  "key":\s*[  at or after i, 0 if none
RECURSIVE ArrayFieldFrom(_, _, _)
ArrayFieldFrom(s, key, i) ==
    IF i + 3 > Len(s) THEN 0
    ELSE IF Sub(s, i, i + 3) = <<Q, key, Q, ":">>
            /\ SkipWs(s, i + 4) <= Len(s) /\ s[SkipWs(s, i + 4)] = "["
         THEN SkipWs(s, i + 4)
         ELSE ArrayFieldFrom(s, key, i + 1)

\* jsonString.match(/"key":\s*\[([\s\S]*?)\]/) and the parse of the captured list
ArrayMatch(s, key) ==
    LET open  == ArrayFieldFrom(s, key, 1)
        close == IF open = 0 THEN 0 ELSE IndexFrom(s, "]", open + 1)
    IN IF close = 0 THEN [found |-> FALSE, val |-> Undefined]
       ELSE LET parsed == JSONparse(ReplaceChars(Sub(s, open, close), {NL, TAB}, <<SP>>))
            IN [found |-> TRUE, val |-> IF parsed.ok THEN parsed.val ELSE JArr(<<>>)]

ExtractedContent(s) ==
    LET m == ContentMatch(s)
        f == FallbackMatch(s)
    IN IF m.found
       THEN << <<(<<"content">>),
                 JStr(Trim(Unescape(Unescape(Unescape(Unescape(m.text,
                     "n", <<NL>>), "t", <<TAB>>), Q, <<Q>>), BS, <<BS>>)))>> >>
       ELSE IF f.found THEN << <<(<<"content">>), JStr(Trim(f.text))>> >>
       ELSE <<>>

ExtractedArray(s, key) ==
    LET m == ArrayMatch(s, key) IN
    IF m.found THEN << <<(<<key>>), m.val>> >> ELSE <<>>

BasicFallback ==
    JObj(<< <<(<<"content">>), JStr(<<"Content extraction failed">>)>>,
            <<(<<"table">>), JArr(<<>>)>>, <<(<<"phases">>), JArr(<<>>)>>,
            <<(<<"team">>), JArr(<<>>)>>, <<(<<"risks">>), JArr(<<>>)>> >>)

\* the manual extraction, last resort of safeJsonParse
ManualExtraction(jsonString) ==
    LET result == ExtractedContent(jsonString) \o ExtractedArray(jsonString, "table")
                  \o ExtractedArray(jsonString, "phases") \o ExtractedArray(jsonString, "team")
                  \o ExtractedArray(jsonString, "risks")
    IN IF Len(result) > 0 THEN JObj(result) ELSE BasicFallback

safeJsonParse(jsonString) ==
    LET first  == JSONparse(FirstFix(jsonString))
        second == JSONparse(SecondFix(jsonString))
    IN IF first.ok THEN first.val
       ELSE IF second.ok THEN second.val
       ELSE ManualExtraction(jsonString)

(***************************************************************************)
(* Numbers and truthiness of decoded values.                               *)
(***************************************************************************)
DigitValue(c) ==
    CASE c = "0" -> 0 [] c = "1" -> 1 [] c = "2" -> 2 [] c = "3" -> 3 [] c = "4" -> 4
      [] c = "5" -> 5 [] c = "6" -> 6 [] c = "7" -> 7 [] c = "8" -> 8 [] c = "9" -> 9

RECURSIVE NumberOf(_)
NumberOf(chars) ==
    IF chars = <<>> THEN 0
    ELSE 10 * NumberOf(SubSeq(chars, 1, Len(chars) - 1)) + DigitValue(chars[Len(chars)])

\* the left operand of  x || y  is taken unless it is falsy
Falsy(val) ==
    \/ val.t = "undefined"
    \/ val.t = "lit" /\ val.v = <<"null">>
    \/ val.t = "str" /\ val.v = <<>>
    \/ val.t = "num" /\ NumberOf(val.v) = 0

OrElse(val, default) == IF Falsy(val) THEN default ELSE val

JNull == JLit("null")

(***************************************************************************)
(* Texts: how the inputs of the model are written.                         *)
(***************************************************************************)
Key(k)  == <<Q, k, Q, ":">>
Str(cs) == <<Q>> \o cs \o <<Q>>

RECURSIVE DigitsOf(_)
DigitsOf(n) ==
    LET d == <<"0", "1", "2", "3", "4", "5", "6", "7", "8", "9">> IN
    IF n < 10 THEN <<d[n + 1]>> ELSE DigitsOf(n \div 10) \o <<d[(n % 10) + 1]>>

(***************************************************************************)
(* Priority scoring of NvI questions.                                      *)
(***************************************************************************)
MaxFactor == 3
HighThreshold == 6
MediumThreshold == 4

\* getPriorityLabel of the proposal view
getPriorityLabel(score) ==
    IF score >= HighThreshold THEN "HIGH"
    ELSE IF score >= MediumThreshold THEN "MEDIUM"
    ELSE "LOW"

FactorColumns == {"ko_risk", "meat_impact", "euro_impact", "time_impact", "evidence_risk"}

\* NULL of an integer column: a value no number of a text can take
NULL == 0 - 1

\* the value an integer column of nvi_questions receives
Column(val) == IF val.t = "num" THEN NumberOf(val.v) ELSE NULL

\* one element of questionsToSave
questionToSave(user, tenderId, q) ==
    [user_id        |-> user,
     tender_id      |-> tenderId,
     lens           |-> Get(q, "lens"),
     priority_score |-> Column(Get(q, "priorityScore")),
     ko_risk        |-> Column(Get(q, "koRisk")),
     meat_impact    |-> Column(Get(q, "meatImpact")),
     euro_impact    |-> Column(Get(q, "euroImpact")),
     time_impact    |-> Column(Get(q, "timeImpact")),
     evidence_risk  |-> Column(Get(q, "evidenceRisk")),
     status         |-> "draft"]

FactorSum(row) ==
    row.ko_risk + row.meat_impact + row.euro_impact + row.time_impact + row.evidence_risk

\* NOT NULL and CHECK constraints of nvi_questions
nvi_questions_constraints(row) ==
    /\ row.lens.t # "undefined" /\ row.lens # JNull
    /\ row.priority_score # NULL
    /\ \A c \in FactorColumns : row[c] # NULL /\ row[c] >= 0 /\ row[c] <= MaxFactor

(***************************************************************************)
(* The users, the tenders and what the vector index can answer.            *)
(***************************************************************************)
Users == {"u1", "u2"}

TenderIds == {"t1", "t2"}

\* a request body without tenderId
NoTenderId == "none"

\* what a namespace of the vector index can answer for a user: lists of ids of
\* the user's own records (the query filters on userId)
CompanyMatches(user) == IF user = "u1" THEN {<<>>, <<"c1">>} ELSE {<<>>}
ProductMatches(user) == IF user = "u1" THEN {<<>>, <<"p1">>} ELSE {<<>>}

Unreachable == <<"unreachable">>

(***************************************************************************)
(* What the generation backend can answer.                                 *)
(***************************************************************************)
BackendError == <<"<error>">>

AnalysisTexts ==
    { <<"{">> \o Key("overallMatch") \o Str(<<"a">>) \o <<"}">>,
      <<FENCE, "json", NL, "{">> \o Key("overallMatch") \o Str(<<"b">>) \o <<"}", NL, FENCE>>,
      <<>>,
      <<"x">> }

ProductMatchTexts ==
    { <<"{">> \o Key("matchingProducts") \o <<"[", "1", "]", "}">>,
      <<"{", "}">>,
      <<"x">> }

Question(lens, ko, meat, euro, time, evidence, priority) ==
    <<"{">> \o Key("lens") \o Str(<<lens>>) \o <<",">>
    \o Key("koRisk") \o DigitsOf(ko) \o <<",">>
    \o Key("meatImpact") \o DigitsOf(meat) \o <<",">>
    \o Key("euroImpact") \o DigitsOf(euro) \o <<",">>
    \o Key("timeImpact") \o DigitsOf(time) \o <<",">>
    \o Key("evidenceRisk") \o DigitsOf(evidence) \o <<",">>
    \o Key("priorityScore") \o DigitsOf(priority) \o <<"}">>

QuestionTexts ==
    { <<"[">> \o Question("A", 3, 1, 2, 2, 1, 9) \o <<"]">>,
      <<FENCE, "json", NL, "[">> \o Question("B", 1, 1, 1, 1, 1, 16) \o <<",", NL>>
          \o Question("C", 0, 1, 0, 1, 0, 2) \o <<",", NL>>
          \o Question("E", 3, 3, 3, 3, 3, 16) \o <<"]", NL, FENCE>>,
      <<"[">> \o Question("D", 5, 0, 0, 0, 0, 5) \o <<"]">>,
      <<"{", "}">>,
      <<"x">>,
      <<>> }

(***************************************************************************)
(***************************************************************************)
(* State.                                                                  *)
(***************************************************************************)
VARIABLES
    tender_documents, \* table tender_documents: the owner of each tender
    companies,        \* table companies: the owner of each company
    products,         \* table products: the company of each product
    tender_analysis,  \* the rows of table tender_analysis
    proposals,        \* the rows of table proposals
    nvi_questions,    \* the rows of table nvi_questions
    now,              \* the clock timestamps are read from
    issued,           \* number of requests received so far
    pc,               \* where each request handler stands
    req,              \* the request each handler serves
    loc,              \* the local variables of each handler
    calls,            \* backend calls each handler has made for its request
    last,             \* the exchange completed last: request, response, calls, log
    arg,              \* the argument a function is applied to on its own
    result            \* what the function has returned for arg

\* the records users import and maintain
records == <<tender_documents, companies, products>>

vars == <<records, tender_analysis, proposals, nvi_questions, now, issued, pc, req, loc,
          calls, last, arg, result>>

\* the state of the routes
routes == <<records, tender_analysis, proposals, nvi_questions, now, issued, pc, req, loc,
            calls, last>>

\* the request handlers that can be in flight at once
Slots == {"r1", "r2"}

\* a request is taken by the first handler that is free
FirstFree(r) == pc[r] = "idle" /\ (r = "r2" => pc["r1"] # "idle")

\* requests served in one behaviour
MaxRequests == 2

NoAnalysis == [overallMatch |-> Undefined, matchingProducts |-> Undefined]

NoReq == [kind |-> "none", user |-> "u1", tenderId |-> NoTenderId,
          forceReanalyze |-> FALSE, issuedAt |-> 0]

NoLoc == [companyIds |-> <<>>, productIds |-> <<>>, products |-> <<>>,
          combinedAnalysis |-> NoAnalysis, questionsToSave |-> <<>>, results |-> <<>>]

NoProposal == [title |-> "", sections |-> <<>>, executiveSummaryTable |-> Undefined,
               methodologyPhases |-> Undefined, teamStructure |-> Undefined,
               riskMatrix |-> Undefined]

NoResp == [status |-> 0, isFromCache |-> FALSE, analysis |-> NoAnalysis,
           relevantCompanies |-> <<>>, relevantProducts |-> <<>>,
           matchedProducts |-> <<>>, analyzedAt |-> 0, questions |-> <<>>, saved |-> 0,
           proposal |-> NoProposal, savedProposal |-> {}]

NoCalls == [retrieval |-> 0, generation |-> 0]

ErrorResponse(status) == [NoResp EXCEPT !.status = status]

\* a row an analysis of tender t1 made before the clock started has left
EarlierAnalysis ==
    [user_id            |-> "u1",
     tender_id          |-> "t1",
     overall_match      |-> JStr(<<"a">>),
     matching_products  |-> JArr(<<>>),
     relevant_companies |-> <<>>,
     relevant_products  |-> <<>>,
     created_at         |-> 0,
     updated_at         |-> 0]

NoArg == <<"<none>">>

NoResult == [by |-> "none"]

\* no request has been received
Quiet ==
    /\ tender_documents = [t \in TenderIds |-> IF t = "t1" THEN "u1" ELSE "u2"]
    /\ companies = [c \in {"c1"} |-> "u1"]
    /\ products = [p \in {"p1"} |-> "c1"]
    /\ proposals = {}
    /\ nvi_questions = {}
    /\ now = 1
    /\ issued = 0
    /\ pc = [r \in Slots |-> "idle"]
    /\ req = [r \in Slots |-> NoReq]
    /\ loc = [r \in Slots |-> NoLoc]
    /\ calls = [r \in Slots |-> NoCalls]
    /\ last = [req |-> NoReq, resp |-> NoResp, calls |-> NoCalls, saveError |-> FALSE]

Init ==
    /\ tender_analysis \in {{}, {EarlierAnalysis}}
    /\ Quiet
    /\ arg = NoArg
    /\ result = NoResult

\* the rows of a table for (user, tender): .eq('tender_id', t).eq('user_id', u)
RowsOf(table, user, tenderId) ==
    {row \in table : row.user_id = user /\ row.tender_id = tenderId}

\* .single(): the one row, an error unless there is exactly one
Single(rows) ==
    IF Cardinality(rows) = 1
    THEN [error |-> FALSE, data |-> CHOOSE row \in rows : TRUE]
    ELSE [error |-> TRUE, data |-> [user_id |-> "", tender_id |-> ""]]

\* the handler answers request with response, having made the backend calls
\* made and logged a save error or not, and ends
Respond(r, request, response, made, saveError) ==
    /\ last' = [req |-> request, resp |-> response, calls |-> made, saveError |-> saveError]
    /\ pc' = [pc EXCEPT ![r] = "idle"]
    /\ req' = [req EXCEPT ![r] = NoReq]
    /\ loc' = [loc EXCEPT ![r] = NoLoc]
    /\ calls' = [calls EXCEPT ![r] = NoCalls]
    /\ UNCHANGED <<arg, result>>

\* the handler goes on to its next await
Continue(r, stage, request, l, made) ==
    /\ pc' = [pc EXCEPT ![r] = stage]
    /\ req' = [req EXCEPT ![r] = request]
    /\ loc' = [loc EXCEPT ![r] = l]
    /\ calls' = [calls EXCEPT ![r] = made]
    /\ UNCHANGED <<last, arg, result>>

(***************************************************************************)
(* POST /api/tenders/analyze                                               *)
(***************************************************************************)
\* a cache branch that forgets to mark its response
UnmarkedResponse(existingAnalysis) ==
    [NoResp EXCEPT
        !.status = 200,
        !.isFromCache = FALSE,
        !.analysis = [overallMatch |-> existingAnalysis.overall_match,
                      matchingProducts |-> existingAnalysis.matching_products],
        !.relevantCompanies = existingAnalysis.relevant_companies,
        !.relevantProducts = existingAnalysis.relevant_products,
        !.analyzedAt = existingAnalysis.created_at]

\* the response built from an existing row
CachedResponse(existingAnalysis) ==
    [NoResp EXCEPT
        !.status = 200,
        !.isFromCache = TRUE,
        !.analysis = [overallMatch |-> existingAnalysis.overall_match,
                      matchingProducts |-> OrElse(existingAnalysis.matching_products, JArr(<<>>))],
        !.relevantCompanies = existingAnalysis.relevant_companies,
        !.relevantProducts = existingAnalysis.relevant_products,
        !.matchedProducts = <<>>,
        !.analyzedAt = existingAnalysis.created_at]

\* a handler that goes to retrieval without looking at the request or the tender
AnalyzeStartUnchecked(r, user, tenderId, forceReanalyze) ==
    /\ FirstFree(r)
    /\ issued < MaxRequests
    /\ issued' = issued + 1
    /\ Continue(r, "retrieve",
                [kind |-> "analyze", user |-> user, tenderId |-> tenderId,
                 forceReanalyze |-> forceReanalyze, issuedAt |-> now],
                NoLoc, NoCalls)
    /\ UNCHANGED <<records, proposals, tender_analysis, nvi_questions, now>>

\* a handler that fetches the tender by its id alone
AnalyzeStartAnyTender(r, user, tenderId, forceReanalyze) ==
    LET request == [kind |-> "analyze", user |-> user, tenderId |-> tenderId,
                    forceReanalyze |-> forceReanalyze, issuedAt |-> now]
        existing == Single(RowsOf(tender_analysis, user, tenderId))
    IN /\ FirstFree(r)
       /\ issued < MaxRequests
       /\ issued' = issued + 1
       /\ IF tenderId = NoTenderId
          THEN Respond(r, request, ErrorResponse(400), NoCalls, FALSE)
          ELSE IF ~forceReanalyze /\ ~existing.error
          THEN Respond(r, request, CachedResponse(existing.data), NoCalls, FALSE)
          ELSE Continue(r, "retrieve", request, NoLoc, NoCalls)
       /\ UNCHANGED <<records, proposals, tender_analysis, nvi_questions, now>>

\* the request is received: validation, the fetch of the tender and, when
\* re-analysis is not forced, the check for an existing analysis
AnalyzeStart(r, user, tenderId, forceReanalyze) ==
    LET request == [kind |-> "analyze", user |-> user, tenderId |-> tenderId,
                    forceReanalyze |-> forceReanalyze, issuedAt |-> now]
        existing == Single(RowsOf(tender_analysis, user, tenderId))
    IN /\ FirstFree(r)
       /\ issued < MaxRequests
       /\ issued' = issued + 1
       /\ IF tenderId = NoTenderId
          THEN Respond(r, request, ErrorResponse(400), NoCalls, FALSE)
          ELSE IF tender_documents[tenderId] # user
          THEN Respond(r, request, ErrorResponse(404), NoCalls, FALSE)
          ELSE IF ~forceReanalyze /\ ~existing.error
          THEN Respond(r, request, CachedResponse(existing.data), NoCalls, FALSE)
          ELSE Continue(r, "retrieve", request, NoLoc, NoCalls)
       /\ UNCHANGED <<records, proposals, tender_analysis, nvi_questions, now>>

\* companyIds[0] || ''
FirstOrNone(ids) == IF ids = <<>> THEN "" ELSE ids[1]

\* the products fetched for the prompt: .in('id', productIds).eq('company_id', companyIds[0] || '')
productsData(companyIds, productIds) ==
    SelectSeq(productIds, LAMBDA p : products[p] = FirstOrNone(companyIds))

\* the calls findRelevantCapabilities has made: the embedding, then the two
\* namespace queries
RetrievalCalls(made, embedded) ==
    [made EXCEPT !.retrieval = @ + (IF embedded THEN 3 ELSE 1)]

\* findRelevantCapabilities and the fetch of the matched companies and products
Retrieve(r, embedded, companyResults, productResults) ==
    /\ pc[r] = "retrieve"
    /\ IF ~embedded \/ companyResults = Unreachable \/ productResults = Unreachable
       THEN Respond(r, req[r], ErrorResponse(500), RetrievalCalls(calls[r], embedded), FALSE)
       ELSE Continue(r, "generate", req[r],
                     [loc[r] EXCEPT !.companyIds = companyResults,
                                    !.productIds = productResults,
                                    !.products = productsData(companyResults, productResults)],
                     RetrievalCalls(calls[r], embedded))
    /\ UNCHANGED <<records, proposals, tender_analysis, nvi_questions, now, issued>>

\* the answer of a task that was not dispatched: Promise.resolve(null)
NotDispatched == <<"<null>">>

\* response.choices[0]?.message?.content || '{}'
ContentOrEmptyObject(content) == IF content = <<>> THEN <<"{", "}">> ELSE content

\* a product matching fragment that is null when the task was not dispatched
NullUnlessDispatched(productOutcome) ==
    LET parsed == cleanAndParseJSON(ContentOrEmptyObject(productOutcome))
    IN IF productOutcome = NotDispatched THEN JNull
       ELSE IF parsed.ok THEN parsed.val
       ELSE JObj(<< <<(<<"matchingProducts">>), JArr(<<>>)>> >>)

\* the product matching fragment: the decoded answer, the fallback when the
\* task was not dispatched or its answer does not decode
productMatchingOf(productOutcome) ==
    LET fallback == JObj(<< <<(<<"matchingProducts">>), JArr(<<>>)>> >>)
        parsed   == cleanAndParseJSON(ContentOrEmptyObject(productOutcome))
    IN IF productOutcome = NotDispatched THEN fallback
       ELSE IF parsed.ok THEN parsed.val ELSE fallback

\* { ...aiAnalysis, matchingProducts: productMatching.matchingProducts || [] }
combinedAnalysisOf(aiAnalysis, productMatching) ==
    [overallMatch     |-> Get(aiAnalysis, "overallMatch"),
     matchingProducts |-> OrElse(Get(productMatching, "matchingProducts"), JArr(<<>>))]

\* the calls the two generation tasks have made
GenerationCalls(made, productOutcome) ==
    [made EXCEPT !.generation = @ + (IF productOutcome = NotDispatched THEN 1 ELSE 2)]

\* the two generation tasks, awaited together, and the decoding of their answers
Generate(r, aiOutcome, productOutcome) ==
    /\ pc[r] = "generate"
    /\ (productOutcome = NotDispatched) <=> (loc[r].products = <<>>)
    /\ LET aiAnalysis      == cleanAndParseJSON(ContentOrEmptyObject(aiOutcome))
           productMatching == productMatchingOf(productOutcome)
       IN IF \/ aiOutcome = BackendError
             \/ productOutcome = BackendError
             \/ ~aiAnalysis.ok
             \/ ThrowsOnAccess(productMatching)
          THEN Respond(r, req[r], ErrorResponse(500),
                       GenerationCalls(calls[r], productOutcome), FALSE)
          ELSE Continue(r, "save", req[r],
                        [loc[r] EXCEPT !.combinedAnalysis =
                             combinedAnalysisOf(aiAnalysis.val, productMatching)],
                        GenerationCalls(calls[r], productOutcome))
    /\ UNCHANGED <<records, proposals, tender_analysis, nvi_questions, now, issued>>

\* a payload that leaves out the overall match
PayloadWithoutMatch(user, tenderId, l, at) ==
    [user_id            |-> user,
     tender_id          |-> tenderId,
     overall_match      |-> Undefined,
     matching_products  |-> OrElse(l.combinedAnalysis.matchingProducts, JArr(<<>>)),
     relevant_companies |-> l.companyIds,
     relevant_products  |-> l.productIds,
     updated_at         |-> at]

\* the object handed to upsert; a key whose value is undefined is not sent
analysisPayload(user, tenderId, l, at) ==
    [user_id            |-> user,
     tender_id          |-> tenderId,
     overall_match      |-> l.combinedAnalysis.overallMatch,
     matching_products  |-> OrElse(l.combinedAnalysis.matchingProducts, JArr(<<>>)),
     relevant_companies |-> l.companyIds,
     relevant_products  |-> l.productIds,
     updated_at         |-> at]

\* an upsert that ignores duplicates: the row already there stays as it is
KeptRow(row, payload) == row

\* the row an upsert leaves when (user_id, tender_id) is already there: the
\* columns sent are overwritten, the others keep their value
UpdatedRow(row, payload) ==
    [row EXCEPT
        !.overall_match = IF payload.overall_match = Undefined THEN @
                          ELSE payload.overall_match,
        !.matching_products = payload.matching_products,
        !.relevant_companies = payload.relevant_companies,
        !.relevant_products = payload.relevant_products,
        !.updated_at = payload.updated_at]

\* the row an upsert inserts: columns not sent take their default
InsertedRow(payload, at) ==
    [user_id            |-> payload.user_id,
     tender_id          |-> payload.tender_id,
     overall_match      |-> IF payload.overall_match = Undefined THEN JNull
                            ELSE payload.overall_match,
     matching_products  |-> payload.matching_products,
     relevant_companies |-> payload.relevant_companies,
     relevant_products  |-> payload.relevant_products,
     created_at         |-> at,
     updated_at         |-> payload.updated_at]

\* a plain insert into a table without the uniqueness constraint
PlainInsert(table, payload, at) == table \cup {InsertedRow(payload, at)}

\* .upsert(payload, { onConflict: 'user_id,tender_id' }) at time at
upsert(table, payload, at) ==
    LET existing == RowsOf(table, payload.user_id, payload.tender_id) IN
    IF existing = {} THEN table \cup {InsertedRow(payload, at)}
    ELSE (table \ existing) \cup {UpdatedRow(row, payload) : row \in existing}

\* the response of a fresh analysis
FreshResponse(l, at) ==
    [NoResp EXCEPT
        !.status = 200,
        !.isFromCache = FALSE,
        !.analysis = l.combinedAnalysis,
        !.relevantCompanies = l.companyIds,
        !.relevantProducts = l.productIds,
        !.matchedProducts = l.products,
        !.analyzedAt = at]

\* a handler that gives up when the upsert fails
ResponseUnlessSaveError(l, at, saveError) ==
    IF saveError THEN ErrorResponse(500) ELSE FreshResponse(l, at)

\* the response after the upsert: its error is logged and nothing else
SaveResponse(l, at, saveError) == FreshResponse(l, at)

\* the upsert of the result (stored says whether the store applied it) and the
\* response
Save(r, stored) ==
    /\ pc[r] = "save"
    /\ tender_analysis' =
           IF stored
           THEN upsert(tender_analysis,
                       analysisPayload(req[r].user, req[r].tenderId, loc[r], now), now)
           ELSE tender_analysis
    /\ Respond(r, req[r], SaveResponse(loc[r], now, ~stored), calls[r], ~stored)
    /\ now' = now + 1
    /\ UNCHANGED <<records, proposals, nvi_questions, issued>>

(***************************************************************************)
(* POST of the NvI question route                                          *)
(***************************************************************************)
\* the request is received: validation, the fetch of the tender and of its
\* analysis
QuestionsStart(r, user, tenderId) ==
    LET request == [kind |-> "questions", user |-> user, tenderId |-> tenderId,
                    forceReanalyze |-> FALSE, issuedAt |-> now]
    IN /\ FirstFree(r)
       /\ issued < MaxRequests
       /\ issued' = issued + 1
       /\ IF tenderId = NoTenderId
          THEN Respond(r, request, ErrorResponse(400), NoCalls, FALSE)
          ELSE IF tender_documents[tenderId] # user
          THEN Respond(r, request, ErrorResponse(404), NoCalls, FALSE)
          ELSE IF Single(RowsOf(tender_analysis, user, tenderId)).error
          THEN Respond(r, request, ErrorResponse(404), NoCalls, FALSE)
          ELSE Continue(r, "qgenerate", request, NoLoc, NoCalls)
       /\ UNCHANGED <<records, proposals, tender_analysis, nvi_questions, now>>

\* the decoding in generateNvIQuestions: [ok |-> FALSE] is the Error it throws
parseNvIQuestions(content) ==
    IF content = <<>> THEN [ok |-> FALSE, val |-> Undefined]
    ELSE JSONparse(RemoveChars(StripFences(Trim(content)), {CTL}))

\* nviQuestions.map(q => ...) throws unless nviQuestions is an array of values
\* whose properties can be read
MapThrows(nviQuestions) ==
    \/ nviQuestions.t # "arr"
    \/ \E i \in 1..Len(nviQuestions.v) : ThrowsOnAccess(nviQuestions.v[i])

questionsToSaveOf(user, tenderId, nviQuestions) ==
    [i \in 1..Len(nviQuestions.v) |-> questionToSave(user, tenderId, nviQuestions.v[i])]

\* generateNvIQuestions and the mapping of its result to rows
QuestionsGenerate(r, outcome) ==
    /\ pc[r] = "qgenerate"
    /\ LET nviQuestions == parseNvIQuestions(outcome)
           made == [calls[r] EXCEPT !.generation = @ + 1]
       IN IF outcome = BackendError \/ ~nviQuestions.ok \/ MapThrows(nviQuestions.val)
          THEN Respond(r, req[r], ErrorResponse(500), made, FALSE)
          ELSE Continue(r, "qdelete", req[r],
                        [loc[r] EXCEPT !.questionsToSave =
                             questionsToSaveOf(req[r].user, req[r].tenderId, nviQuestions.val)],
                        made)
    /\ UNCHANGED <<records, proposals, tender_analysis, nvi_questions, now, issued>>

\* a delete that names the table of the tenders instead of the questions
DeleteFromTenders(r, stored) ==
    /\ pc[r] = "qdelete"
    /\ tender_documents' =
           IF stored
           THEN [t \in DOMAIN tender_documents \ {req[r].tenderId} |-> tender_documents[t]]
           ELSE tender_documents
    /\ Continue(r, "qinsert", req[r], loc[r], calls[r])
    /\ UNCHANGED <<companies, products, proposals, tender_analysis, nvi_questions, now,
                   issued>>

\* .delete().eq('user_id', u).eq('tender_id', t); its result is not looked at
QuestionsDelete(r, stored) ==
    /\ pc[r] = "qdelete"
    /\ nvi_questions' =
           IF stored
           THEN nvi_questions \ RowsOf(nvi_questions, req[r].user, req[r].tenderId)
           ELSE nvi_questions
    /\ Continue(r, "qinsert", req[r], loc[r], calls[r])
    /\ UNCHANGED <<records, proposals, tender_analysis, now, issued>>

\* the rows an insert adds: each gets its own identity (ord within the insert
\* made at created_at)
insertedQuestions(questionsToSave, at) ==
    {[user_id        |-> questionsToSave[i].user_id,
      tender_id      |-> questionsToSave[i].tender_id,
      lens           |-> questionsToSave[i].lens,
      priority_score |-> questionsToSave[i].priority_score,
      ko_risk        |-> questionsToSave[i].ko_risk,
      meat_impact    |-> questionsToSave[i].meat_impact,
      euro_impact    |-> questionsToSave[i].euro_impact,
      time_impact    |-> questionsToSave[i].time_impact,
      evidence_risk  |-> questionsToSave[i].evidence_risk,
      status         |-> questionsToSave[i].status,
      created_at     |-> at,
      ord            |-> i] : i \in 1..Len(questionsToSave)}

\* the response of the question route once the rows are saved
QuestionsResponse(questionsToSave) ==
    [NoResp EXCEPT !.status = 200,
                   !.questions = questionsToSave,
                   !.saved = Len(questionsToSave)]

\* .insert(questionsToSave): all rows or none
QuestionsInsert(r, stored) ==
    /\ pc[r] = "qinsert"
    /\ LET questionsToSave == loc[r].questionsToSave
           accepted == stored /\ \A i \in 1..Len(questionsToSave) :
                                    nvi_questions_constraints(questionsToSave[i])
       IN IF accepted
          THEN /\ nvi_questions' = nvi_questions \cup insertedQuestions(questionsToSave, now)
               /\ Respond(r, req[r], QuestionsResponse(questionsToSave), calls[r], FALSE)
          ELSE /\ nvi_questions' = nvi_questions
               /\ Respond(r, req[r], ErrorResponse(500), calls[r], TRUE)
    /\ now' = now + 1
    /\ UNCHANGED <<records, proposals, tender_analysis, issued>>

(***************************************************************************)
(* GET of the NvI question route and the ordering of the proposal view     *)
(***************************************************************************)
\* what .order('priority_score', { ascending: false }) can answer for a set of
\* rows: every arrangement of the rows with priority_score descending; the
\* order of rows with the same priority_score is not determined
Orderings(rows) ==
    {listing \in [1..Cardinality(rows) -> rows] :
        /\ \A row \in rows : \E i \in DOMAIN listing : listing[i] = row
        /\ \A i, j \in DOMAIN listing :
              i < j => listing[i].priority_score >= listing[j].priority_score}

\* the response of the listing
ListResponse(listing) == [NoResp EXCEPT !.status = 200, !.questions = listing]

\* the questions stored for a tender are listed
QuestionsList(r, user, tenderId, listing) ==
    LET request == [kind |-> "list", user |-> user, tenderId |-> tenderId,
                    forceReanalyze |-> FALSE, issuedAt |-> now]
    IN /\ FirstFree(r)
       /\ issued < MaxRequests
       /\ issued' = issued + 1
       /\ IF tenderId = NoTenderId
          THEN /\ listing = <<>>
               /\ Respond(r, request, ErrorResponse(400), NoCalls, FALSE)
          ELSE /\ listing \in Orderings(RowsOf(nvi_questions, user, tenderId))
               /\ Respond(r, request, ListResponse(listing), NoCalls, FALSE)
       /\ UNCHANGED <<records, proposals, tender_analysis, nvi_questions, now>>

\* the place of question q in a list sorted by priorityScore descending: after
\* every question whose score is not lower
RECURSIVE InsertByPriority(_, _)
InsertByPriority(sorted, q) ==
    IF sorted = <<>> THEN <<q>>
    ELSE IF Head(sorted).priority_score >= q.priority_score
         THEN <<Head(sorted)>> \o InsertByPriority(Tail(sorted), q)
         ELSE <<q>> \o sorted

\* questions.sort((a, b) => b.priorityScore - a.priorityScore): Array.prototype.sort
\* is stable
RECURSIVE sortByPriorityScore(_)
sortByPriorityScore(questions) ==
    IF questions = <<>> THEN <<>>
    ELSE InsertByPriority(
             sortByPriorityScore(SubSeq(questions, 1, Len(questions) - 1)),
             questions[Len(questions)])

(***************************************************************************)
(* POST /api/proposals/generate                                            *)
(***************************************************************************)
\* the agents, in the order of the array handed to Promise.all
Agents == <<"companyIntro", "executiveSummary", "methodology", "organization",
            "riskManagement", "sustainability", "whyChooseUs">>

\* the type of the section each agent writes
SectionTypes == <<"company_intro", "executive_summary", "methodology", "organisation",
                  "risk_management", "sustainability", "why_choose_us">>

\* the array each agent but the first and the last two is asked for besides
\* its content
ArrayOf(i) ==
    CASE i = 2 -> "table" [] i = 3 -> "phases" [] i = 4 -> "team" [] i = 5 -> "risks"
      [] OTHER -> ""

\* what the generation backend answers agent i in the format its prompt asks for
AgentText(i) ==
    <<"{">> \o Key("content") \o Str(<<Agents[i]>>)
    \o (IF ArrayOf(i) = "" THEN <<>>
        ELSE <<",">> \o Key(ArrayOf(i)) \o <<"[">> \o DigitsOf(i) \o <<"]">>)
    \o <<"}">>

\* a slot of Promise.all whose promise has not settled
Pending == <<"<pending>">>

\* what an agent returns for the answer of the backend
AgentOutput(content) == safeJsonParse(cleanJsonResponse(ContentOrEmptyObject(content)))

\* a handler that dispatches the agents without looking for the analysis
ProposalStartUnchecked(r, user, tenderId) ==
    LET request == [kind |-> "proposal", user |-> user, tenderId |-> tenderId,
                    forceReanalyze |-> FALSE, issuedAt |-> now]
    IN /\ FirstFree(r)
       /\ issued < MaxRequests
       /\ issued' = issued + 1
       /\ IF tenderId = NoTenderId
          THEN Respond(r, request, ErrorResponse(400), NoCalls, FALSE)
          ELSE IF tender_documents[tenderId] # user
          THEN Respond(r, request, ErrorResponse(404), NoCalls, FALSE)
          ELSE Continue(r, "pgenerate", request,
                        [NoLoc EXCEPT !.results = [i \in DOMAIN Agents |-> Pending]],
                        NoCalls)
       /\ UNCHANGED <<records, proposals, tender_analysis, nvi_questions, now>>

\* the request is received: validation, the fetch of the tender and of its
\* analysis, of the user's companies and products, and the dispatch of the agents
ProposalStart(r, user, tenderId) ==
    LET request == [kind |-> "proposal", user |-> user, tenderId |-> tenderId,
                    forceReanalyze |-> FALSE, issuedAt |-> now]
    IN /\ FirstFree(r)
       /\ issued < MaxRequests
       /\ issued' = issued + 1
       /\ IF tenderId = NoTenderId
          THEN Respond(r, request, ErrorResponse(400), NoCalls, FALSE)
          ELSE IF tender_documents[tenderId] # user
          THEN Respond(r, request, ErrorResponse(404), NoCalls, FALSE)
          ELSE IF Single(RowsOf(tender_analysis, user, tenderId)).error
          THEN Respond(r, request, ErrorResponse(404), NoCalls, FALSE)
          ELSE Continue(r, "pgenerate", request,
                        [NoLoc EXCEPT !.results = [i \in DOMAIN Agents |-> Pending]],
                        NoCalls)
       /\ UNCHANGED <<records, proposals, tender_analysis, nvi_questions, now>>

\* a Promise.all that appends each value as it arrives
SettleByArrival(values, i, value) ==
    LET first == CHOOSE k \in DOMAIN values :
                     values[k] = Pending /\ \A j \in 1..(k - 1) : values[j] # Pending
    IN [values EXCEPT ![first] = value]

\* Promise.all: the value of the i-th promise becomes the i-th element of the
\* result, whenever it arrives
Settle(values, i, value) == [values EXCEPT ![i] = value]

\* the call of agent i to the backend returns: a failed call rejects the
\* Promise.all and the request; an answer is kept in the agent's place until
\* every agent has returned (results holds the answers, what the agents make
\* of them is AgentOutput of each)
AgentSettles(r, i, outcome) ==
    /\ pc[r] = "pgenerate"
    /\ loc[r].results[i] = Pending
    /\ LET made == [calls[r] EXCEPT !.generation = @ + 1]
           results == Settle(loc[r].results, i, outcome)
       IN IF outcome = BackendError
          THEN Respond(r, req[r], ErrorResponse(500), made, FALSE)
          ELSE Continue(r,
                        IF \A k \in DOMAIN results : results[k] # Pending
                        THEN "psave" ELSE "pgenerate",
                        req[r], [loc[r] EXCEPT !.results = results], made)
    /\ UNCHANGED <<records, proposals, tender_analysis, nvi_questions, now, issued>>

\* the proposal put together from what the agents returned
proposalOf(tenderId, returned) ==
    [title                 |-> tenderId,
     sections              |-> [i \in DOMAIN Agents |->
                                   [type |-> SectionTypes[i],
                                    content |-> Get(returned[i], "content")]],
     executiveSummaryTable |-> Get(returned[2], "table"),
     methodologyPhases     |-> Get(returned[3], "phases"),
     teamStructure         |-> Get(returned[4], "team"),
     riskMatrix            |-> Get(returned[5], "risks")]

\* .upsert({ user_id, tender_id, title, content, status, updated_at },
\* { onConflict: 'user_id,tender_id' }) into proposals at time at
upsertProposal(table, user, tenderId, proposal, at) ==
    LET existing == RowsOf(table, user, tenderId) IN
    IF existing = {}
    THEN table \cup {[user_id |-> user, tender_id |-> tenderId, title |-> proposal.title,
                      content |-> proposal, status |-> "draft",
                      created_at |-> at, updated_at |-> at]}
    ELSE (table \ existing)
         \cup {[row EXCEPT !.title = proposal.title, !.content = proposal,
                           !.status = "draft", !.updated_at = at] : row \in existing}

\* { success: true, proposal, savedProposal }
ProposalResponse(proposal, savedProposal) ==
    [NoResp EXCEPT !.status = 200, !.proposal = proposal, !.savedProposal = savedProposal]

\* the proposal is put together, upserted (stored says whether the store
\* applied it) and returned
ProposalSave(r, stored) ==
    /\ pc[r] = "psave"
    /\ \E returned \in {[i \in DOMAIN Agents |-> AgentOutput(loc[r].results[i])]} :
       \E proposal \in {proposalOf(req[r].tenderId, returned)} :
          IF \E i \in DOMAIN Agents : ThrowsOnAccess(returned[i])
          THEN /\ proposals' = proposals
               /\ Respond(r, req[r], ErrorResponse(500), calls[r], FALSE)
          ELSE /\ proposals' =
                      IF stored
                      THEN upsertProposal(proposals, req[r].user, req[r].tenderId,
                                          proposal, now)
                      ELSE proposals
               /\ Respond(r, req[r],
                          ProposalResponse(proposal,
                              IF stored
                              THEN RowsOf(proposals', req[r].user, req[r].tenderId)
                              ELSE {}),
                          calls[r], ~stored)
    /\ now' = now + 1
    /\ UNCHANGED <<records, tender_analysis, nvi_questions, issued>>

(***************************************************************************)
(* The pipeline.                                                           *)
(***************************************************************************)
Next ==
    \/ \E r \in Slots, user \in Users, tenderId \in TenderIds \cup {NoTenderId},
          forceReanalyze \in BOOLEAN : AnalyzeStart(r, user, tenderId, forceReanalyze)
    \/ \E r \in Slots, embedded \in BOOLEAN :
          \E companyResults \in CompanyMatches(req[r].user) \cup {Unreachable},
             productResults \in ProductMatches(req[r].user) \cup {Unreachable} :
               Retrieve(r, embedded, companyResults, productResults)
    \/ \E r \in Slots, aiOutcome \in AnalysisTexts \cup {BackendError},
          productOutcome \in ProductMatchTexts \cup {BackendError, NotDispatched} :
            Generate(r, aiOutcome, productOutcome)
    \/ \E r \in Slots, stored \in BOOLEAN : Save(r, stored)
    \/ \E r \in Slots, user \in Users, tenderId \in TenderIds \cup {NoTenderId} :
            QuestionsStart(r, user, tenderId)
    \/ \E r \in Slots, outcome \in QuestionTexts \cup {BackendError} :
            QuestionsGenerate(r, outcome)
    \/ \E r \in Slots, stored \in BOOLEAN : QuestionsDelete(r, stored)
    \/ \E r \in Slots, stored \in BOOLEAN : QuestionsInsert(r, stored)
    \/ \E r \in Slots, user \in Users, tenderId \in TenderIds \cup {NoTenderId} :
          \E listing \in Orderings(RowsOf(nvi_questions, user, tenderId)) \cup {<<>>} :
            QuestionsList(r, user, tenderId, listing)

Spec == Init /\ [][Next]_vars

\* the steps of the proposal route
ProposalNext ==
    \/ \E r \in Slots, user \in Users, tenderId \in TenderIds \cup {NoTenderId} :
            ProposalStart(r, user, tenderId)
    \/ \E r \in Slots, i \in DOMAIN Agents :
          \E outcome \in {AgentText(i), BackendError} : AgentSettles(r, i, outcome)
    \/ \E r \in Slots, stored \in BOOLEAN : ProposalSave(r, stored)

ProposalSpec == Init /\ [][ProposalNext]_vars

\* the pipeline with the proposal route
PipelineNext == Next \/ ProposalNext

PipelineSpec == Init /\ [][PipelineNext]_vars

(***************************************************************************)
(* Properties of the analysis route.                                       *)
(***************************************************************************)
\* the tender exists and is the user's
Owns(user, tenderId) == tenderId \in TenderIds /\ tender_documents[tenderId] = user

\* request r ends with this step
Completes(r) == pc[r] # "idle" /\ pc'[r] = "idle"

\* the row holds every field the analysis defines
Carries(row, analysis) ==
    /\ analysis.overallMatch # Undefined => row.overall_match = analysis.overallMatch
    /\ row.matching_products = analysis.matchingProducts

\* the response returns the contents of the row
Returns(response, row) ==
    /\ response.analysis.overallMatch = row.overall_match
    /\ response.analysis.matchingProducts = row.matching_products
    /\ response.relevantCompanies = row.relevant_companies
    /\ response.relevantProducts = row.relevant_products

\* C1: an analysis request with forceReanalyze false for a pair (user, tender)
\* that has an analysis row ends at once with status 200, isFromCache true and
\* the contents of that row, has made no retrieval call and no generation call,
\* and leaves the row as it was.
C1_CacheHit ==
    [][\A r \in Slots, user \in Users, tenderId \in TenderIds :
          /\ AnalyzeStart(r, user, tenderId, FALSE)
          /\ Owns(user, tenderId)
          /\ RowsOf(tender_analysis, user, tenderId) # {}
          => /\ pc'[r] = "idle"
             /\ last'.req.user = user /\ last'.req.tenderId = tenderId
             /\ last'.resp.status = 200
             /\ last'.resp.isFromCache
             /\ \E row \in RowsOf(tender_analysis, user, tenderId) : Returns(last'.resp, row)
             /\ last'.calls.retrieval = 0 /\ last'.calls.generation = 0
             /\ tender_analysis' = tender_analysis]_vars

\* a request was answered from a row that a request of this behaviour has written
C1_Witness ==
    /\ last.req.kind = "analyze" /\ ~last.req.forceReanalyze
    /\ last.resp.status = 200 /\ last.resp.isFromCache
    /\ last.calls = NoCalls
    /\ \E row \in RowsOf(tender_analysis, last.req.user, last.req.tenderId) :
          row.updated_at > 0 /\ Returns(last.resp, row)

\* C2: whatever analysis requests have run, forced or not, one after the other
\* or overlapping, tender_analysis holds at most one row per (user, tender),
\* and exactly one for the pair of a request whose upsert has been applied.
C2_OneRowPerPair ==
    /\ \A user \in Users, tenderId \in TenderIds :
          Cardinality(RowsOf(tender_analysis, user, tenderId)) <= 1
    /\ (/\ last.req.kind = "analyze"
        /\ last.resp.status = 200 /\ ~last.resp.isFromCache /\ ~last.saveError)
       => Cardinality(RowsOf(tender_analysis, last.req.user, last.req.tenderId)) = 1

\* a second analysis of a pair has been saved over the row of the first
C2_Witness ==
    /\ last.req.kind = "analyze" /\ last.resp.status = 200
    /\ ~last.resp.isFromCache /\ ~last.saveError
    /\ \E row \in RowsOf(tender_analysis, last.req.user, last.req.tenderId) :
          row.created_at < row.updated_at /\ row.updated_at = last.resp.analyzedAt

ForcedBefore(user, tenderId) ==
    /\ last.req.kind = "analyze" /\ last.req.forceReanalyze
    /\ last.req.user = user /\ last.req.tenderId = tenderId
    /\ last.resp.status = 200

C8_SaveFailureStillAnswers ==
    [][\A r \in Slots :
          Save(r, FALSE)
          => /\ pc'[r] = "idle"
             /\ last'.req = req[r]
             /\ last'.resp.status = 200
             /\ ~last'.resp.isFromCache
             /\ last'.resp.analysis = loc[r].combinedAnalysis
             /\ last'.saveError
             /\ tender_analysis' = tender_analysis]_vars

\* a request has answered 200 with a fresh result although its upsert failed
C8_Witness ==
    /\ last.req.kind = "analyze" /\ last.saveError
    /\ last.resp.status = 200 /\ ~last.resp.isFromCache
    /\ last.resp.analysis.overallMatch = JStr(<<"b">>)
    /\ RowsOf(tender_analysis, last.req.user, last.req.tenderId) = {}

\* C16: an analysis request without a tender id, or for a tender that does not
\* exist for the requesting user, is answered with an error (400 without a
\* tender id, 404 otherwise) in the step that receives it: no retrieval call, no
\* generation call and no change to a table.
C16_InvalidRequestRejectedAtOnce ==
    [][\A r \in Slots, user \in Users, tenderId \in TenderIds \cup {NoTenderId},
          forceReanalyze \in BOOLEAN :
          AnalyzeStart(r, user, tenderId, forceReanalyze) /\ ~Owns(user, tenderId)
          => /\ pc'[r] = "idle"
             /\ last'.req.user = user /\ last'.req.tenderId = tenderId
             /\ last'.resp.status = (IF tenderId = NoTenderId THEN 400 ELSE 404)
             /\ last'.resp.analysis = NoAnalysis
             /\ last'.calls = NoCalls
             /\ tender_analysis' = tender_analysis
             /\ nvi_questions' = nvi_questions]_vars

\* a forced request for a tender of another user, which has an analysis stored,
\* was turned away
C16_Witness ==
    /\ last.req.kind = "analyze" /\ last.req.forceReanalyze
    /\ last.req.user = "u2" /\ last.req.tenderId = "t1"
    /\ last.resp.status = 404 /\ last.calls = NoCalls
    /\ RowsOf(tender_analysis, "u1", "t1") # {}

(***************************************************************************)
(* Properties of retrieval within the analysis route.                      *)
(***************************************************************************)
\* what a namespace contributes when it cannot be reached and is tolerated
Tolerated(results) == IF results = Unreachable THEN <<>> ELSE results

\* C13: when exactly one of the two namespaces cannot be reached, retrieval
\* returns the matches of the other and an empty list for the one that failed,
\* and the analysis goes on to generation; the request ends with an error only
\* when both namespaces fail.
C13_PartialRetrievalTolerated ==
    [][\A r \in Slots :
          \A companyResults \in CompanyMatches(req[r].user) \cup {Unreachable},
             productResults \in ProductMatches(req[r].user) \cup {Unreachable} :
             Retrieve(r, TRUE, companyResults, productResults)
             => IF companyResults = Unreachable /\ productResults = Unreachable
                THEN pc'[r] = "idle" /\ last'.resp.status = 500
                ELSE /\ pc'[r] = "generate"
                     /\ loc'[r].companyIds = Tolerated(companyResults)
                     /\ loc'[r].productIds = Tolerated(productResults)]_vars

(***************************************************************************)
(* Properties of the generation fan-out of the analysis route.             *)
(***************************************************************************)
\* a generation task that was dispatched has failed: the backend call raised
\* or its answer does not decode
TaskFailed(outcome) ==
    \/ outcome = BackendError
    \/ outcome # NotDispatched /\ ~cleanAndParseJSON(ContentOrEmptyObject(outcome)).ok

\* the fragment standing in for the product matching task
FallbackFragment == JArr(<<>>)

\* C5: when one of the two generation tasks of an analysis fails, by an error
\* of the backend call or by an answer that does not decode, the request is
\* not aborted: the handler goes on to save and return a composite result.
C5_TaskFailureIsolated ==
    [][\A r \in Slots, aiOutcome \in AnalysisTexts \cup {BackendError},
          productOutcome \in ProductMatchTexts \cup {BackendError} :
          /\ Generate(r, aiOutcome, productOutcome)
          /\ TaskFailed(aiOutcome) # TaskFailed(productOutcome)
          => /\ pc'[r] = "save"
             /\ TaskFailed(productOutcome)
                => loc'[r].combinedAnalysis.matchingProducts = FallbackFragment]_vars

\* C6: when exactly one of the two generation tasks of an analysis answers
\* with text that does not decode, whichever it is, the composite result holds
\* the decoded fragment of the other task and the fallback for the failing one.
C6_OneUnparseableAnswer ==
    [][\A r \in Slots, aiOutcome \in AnalysisTexts, productOutcome \in ProductMatchTexts :
          /\ Generate(r, aiOutcome, productOutcome)
          /\ TaskFailed(aiOutcome) # TaskFailed(productOutcome)
          => /\ pc'[r] = "save"
             /\ TaskFailed(productOutcome)
                => /\ loc'[r].combinedAnalysis.matchingProducts = FallbackFragment
                   /\ loc'[r].combinedAnalysis.overallMatch =
                         Get(cleanAndParseJSON(ContentOrEmptyObject(aiOutcome)).val,
                             "overallMatch")
             /\ TaskFailed(aiOutcome)
                => loc'[r].combinedAnalysis.matchingProducts =
                      OrElse(Get(cleanAndParseJSON(ContentOrEmptyObject(productOutcome)).val,
                                 "matchingProducts"), JArr(<<>>))]_vars

\* another forced analysis of the pair of request r ran while r was in flight
\* and its upsert was applied: it is the exchange completed last, and it was
\* stored after r was received
ForcedConcurrently(r) ==
    /\ ForcedBefore(req[r].user, req[r].tenderId)
    /\ ~last.saveError
    /\ last.resp.analyzedAt >= req[r].issuedAt

\* the row is the whole result of a request: a field the result leaves
\* undefined is empty in the row
HoldsWhole(row, analysis, companyIds, productIds) ==
    /\ row.overall_match = (IF analysis.overallMatch = Undefined THEN JNull
                            ELSE analysis.overallMatch)
    /\ row.matching_products = analysis.matchingProducts
    /\ row.relevant_companies = companyIds
    /\ row.relevant_products = productIds

\* C20: when two analysis requests with forceReanalyze true for the same pair
\* overlap and both upserts are applied, then once the second upsert is applied
\* the pair has exactly one row and that row is the whole result of the request
\* that made it, with no field left over from the other request.
C20_LastWriteWinsWhole ==
    [][\A r \in Slots :
          /\ Save(r, TRUE)
          /\ req[r].forceReanalyze
          /\ ForcedConcurrently(r)
          => LET rows == RowsOf(tender_analysis', req[r].user, req[r].tenderId) IN
             /\ Cardinality(rows) = 1
             /\ \A row \in rows :
                   HoldsWhole(row, loc[r].combinedAnalysis,
                              loc[r].companyIds, loc[r].productIds)]_vars

\* retrieval has found nothing for the request of handler r
NoMatches(r) == loc[r].companyIds = <<>> /\ loc[r].productIds = <<>>

InSequence(r) ==
    /\ \A o \in Slots \ {r} :
          ~(req[o].kind = "questions" /\ req[o].user = req[r].user
            /\ req[o].tenderId = req[r].tenderId)
    /\ \A row \in RowsOf(nvi_questions, req[r].user, req[r].tenderId) :
          row.created_at < req[r].issuedAt

\* C9: when a question generation that follows another for the same pair, in
\* sequence, answers 200, the rows stored for the pair are exactly the rows of
\* that second generation: no duplicates and no row of the first.
C9_SecondSetReplacesFirst ==
    [][\A r \in Slots :
          /\ pc[r] = "qinsert" /\ Completes(r)
          /\ last'.resp.status = 200
          /\ InSequence(r)
          => RowsOf(nvi_questions', req[r].user, req[r].tenderId)
                = insertedQuestions(loc[r].questionsToSave, now)]_vars

\* the largest sum five factors can have
MaxTotal == Cardinality(FactorColumns) * MaxFactor

\* the factors and the total of a question are in range
Scored(q) ==
    /\ \A c \in FactorColumns : q[c] \in 0..MaxFactor
    /\ q.priority_score \in 0..MaxTotal

\* C11: every question the question route has stored, and every question of a
\* response with status 200 of the question route, has each of its five factors
\* in 0..3 and a total in 0..15, whatever the generation backend has answered.
C11_FactorsAndTotalInRange ==
    /\ \A row \in nvi_questions : Scored(row)
    /\ last.req.kind = "questions" /\ last.resp.status = 200
       => \A i \in 1..Len(last.resp.questions) : Scored(last.resp.questions[i])

\* the rows in the order their questions were generated: by insert, then by
\* place within the insert
GeneratedBefore(a, b) ==
    \/ a.created_at < b.created_at
    \/ a.created_at = b.created_at /\ a.ord < b.ord

\* C12: the questions of a listing, ordered by the proposal view, are in
\* descending order of total, questions of equal total are in the order they
\* were generated in, and ordering them once more changes nothing.
C12_DescendingTiesInGenerationOrder ==
    last.req.kind = "list" /\ last.resp.status = 200
    => LET shown == sortByPriorityScore(last.resp.questions) IN
       /\ \A i, j \in 1..Len(shown) :
             i < j => \/ shown[i].priority_score > shown[j].priority_score
                      \/ /\ shown[i].priority_score = shown[j].priority_score
                         /\ GeneratedBefore(shown[i], shown[j])
       /\ sortByPriorityScore(shown) = shown

(***************************************************************************)
(* Properties of the pipeline with the proposal route.                     *)
(***************************************************************************)
\* the section agent i writes when its answer is the one the backend gives it:
\* the text of every agent carries the agent's name
SectionOf(i) == [type |-> SectionTypes[i], content |-> JStr(<<Agents[i]>>)]

\* the array agent i returns besides its content
ArrayReturned(i) == JArr(<<JNum(DigitsOf(i))>>)

\* C21: the results of the generation tasks awaited together are placed by
\* task, whatever the order in which the tasks complete: while the agents of a
\* proposal are awaited, the i-th place of the result holds nothing but the
\* answer to the i-th agent; every section and every table of a proposal that
\* is returned comes from the agent it is assigned to; and the combined
\* analysis takes its overall match from the main analysis task and its
\* matching products from the product matching task.
C21_ResultsByTaskSlot ==
    [][/\ \A r \in Slots :
             pc'[r] \in {"pgenerate", "psave"}
             => \A i \in DOMAIN Agents : loc'[r].results[i] \in {Pending, AgentText(i)}
       /\ \A r \in Slots :
             /\ pc[r] = "psave"
             /\ \E stored \in BOOLEAN : ProposalSave(r, stored)
             /\ last'.resp.status = 200
             => /\ \A i \in DOMAIN Agents : last'.resp.proposal.sections[i] = SectionOf(i)
                /\ last'.resp.proposal.executiveSummaryTable = ArrayReturned(2)
                /\ last'.resp.proposal.methodologyPhases = ArrayReturned(3)
                /\ last'.resp.proposal.teamStructure = ArrayReturned(4)
                /\ last'.resp.proposal.riskMatrix = ArrayReturned(5)
       /\ \A r \in Slots, aiOutcome \in AnalysisTexts,
             productOutcome \in ProductMatchTexts \cup {NotDispatched} :
             pc[r] = "generate" /\ pc'[r] = "save" /\ Generate(r, aiOutcome, productOutcome)
             => /\ loc'[r].combinedAnalysis.overallMatch =
                       Get(cleanAndParseJSON(ContentOrEmptyObject(aiOutcome)).val,
                           "overallMatch")
                /\ loc'[r].combinedAnalysis.matchingProducts =
                       OrElse(Get(productMatchingOf(productOutcome), "matchingProducts"),
                              JArr(<<>>))]_vars

\* the last agent dispatched has returned while the first is still awaited
C21_Witness ==
    \E r \in Slots :
        /\ pc[r] = "pgenerate"
        /\ loc[r].results[Len(Agents)] = AgentText(Len(Agents))
        /\ loc[r].results[1] = Pending

\* the backend has answered a task of the analysis route with text that does
\* not decode
Undecodable(outcome) ==
    /\ outcome \notin {BackendError, NotDispatched}
    /\ ~cleanAndParseJSON(ContentOrEmptyObject(outcome)).ok

\* C22: generation output that does not decode is never surfaced as a failure
\* of the request: an analysis whose main or product matching answer does not
\* decode goes on to save its result, a question generation whose answer does
\* not decode goes on to replace the questions, and a proposal whose agents
\* have all answered is returned with status 200.
C22_DecodeFailureNotSurfaced ==
    [][/\ \A r \in Slots, aiOutcome \in AnalysisTexts,
             productOutcome \in ProductMatchTexts \cup {NotDispatched} :
             /\ pc[r] = "generate"
             /\ Generate(r, aiOutcome, productOutcome)
             /\ Undecodable(aiOutcome) \/ Undecodable(productOutcome)
             => pc'[r] = "save"
       /\ \A r \in Slots, outcome \in QuestionTexts \ {<<>>} :
             /\ pc[r] = "qgenerate"
             /\ QuestionsGenerate(r, outcome)
             /\ ~parseNvIQuestions(outcome).ok
             => pc'[r] = "qdelete"
       /\ \A r \in Slots, stored \in BOOLEAN :
             pc[r] = "psave" /\ ProposalSave(r, stored) => last'.resp.status = 200]_vars

\* C23: no step of an analysis, question generation, listing or proposal
\* request inserts, updates or deletes a tender, a company or a product.
C23_RecordsUntouched == [][UNCHANGED <<tender_documents, companies, products>>]_vars

\* an analysis has been stored and a proposal generated from it, and the
\* tenders, companies and products are as they were
C23_Witness ==
    /\ \E row \in tender_analysis : row.updated_at >= 1
    /\ \E row \in proposals : row.created_at >= 1
    /\ tender_documents = [t \in TenderIds |-> IF t = "t1" THEN "u1" ELSE "u2"]
    /\ companies = [c \in {"c1"} |-> "u1"]
    /\ products = [p \in {"p1"} |-> "c1"]

\* another question generation for the pair of request r has stored its rows
\* while r was in flight: it is the exchange completed last, and rows of the
\* pair were inserted after r was received
ReplacedConcurrently(r) ==
    /\ last.req.kind = "questions"
    /\ last.req.user = req[r].user
    /\ last.req.tenderId = req[r].tenderId
    /\ last.resp.status = 200
    /\ \E row \in RowsOf(nvi_questions, req[r].user, req[r].tenderId) :
          row.created_at >= req[r].issuedAt

\* C24: when two question generations for the same (user, tender) run
\* concurrently, the rows stored for the pair once the second has finished are
\* the rows of exactly one of the two: those the first had stored, or those
\* the second inserts.
C24_ConcurrentReplaceLeavesOneSet ==
    [][\A r \in Slots :
          /\ pc[r] = "qinsert"
          /\ ReplacedConcurrently(r)
          /\ \E stored \in BOOLEAN : QuestionsInsert(r, stored)
          => LET before == RowsOf(nvi_questions, req[r].user, req[r].tenderId)
                 after  == RowsOf(nvi_questions', req[r].user, req[r].tenderId)
             IN \/ after = before
                \/ after = insertedQuestions(loc[r].questionsToSave, now)]_vars

\* the question generation completed last was for the pair of request r, has
\* stored its rows and had answered before r was received, and no other
\* question generation for the pair is in flight
FollowsStoredSet(r) ==
    /\ last.req.kind = "questions"
    /\ last.req.user = req[r].user
    /\ last.req.tenderId = req[r].tenderId
    /\ last.resp.status = 200
    /\ last.req.issuedAt < req[r].issuedAt
    /\ \A o \in Slots \ {r} :
          ~(req[o].kind = "questions" /\ req[o].user = req[r].user
            /\ req[o].tenderId = req[r].tenderId)

\* C25: a question generation that ends in an error response leaves the rows
\* stored for its (user, tender) as they were before the request: when it
\* follows a generation that has stored its set, the rows of the pair are still
\* the rows of that set once the error is answered.
C25_FailedGenerationKeepsSet ==
    [][\A r \in Slots :
          /\ req[r].kind = "questions"
          /\ Completes(r)
          /\ last'.resp.status = 500
          /\ FollowsStoredSet(r)
          => \E at \in 1..now :
                RowsOf(nvi_questions', req[r].user, req[r].tenderId)
                   = insertedQuestions(last.resp.questions, at)]_vars

\* C26: question generation and proposal generation go on only for a pair that
\* has an analysis row: a request of either kind for a tender of the user
\* without one is answered 404 at once, with no call to the generation backend
\* and the stored questions and proposals unchanged; and whenever a request of
\* either kind is under way, its pair has an analysis row.
C26_NoAnalysisNoGeneration ==
    [][/\ \A r \in Slots, user \in Users, tenderId \in TenderIds :
             /\ QuestionsStart(r, user, tenderId) \/ ProposalStart(r, user, tenderId)
             /\ RowsOf(tender_analysis, user, tenderId) = {}
             => /\ pc'[r] = "idle"
                /\ last'.req.user = user /\ last'.req.tenderId = tenderId
                /\ last'.resp.status = 404
                /\ last'.calls.generation = 0
                /\ UNCHANGED <<nvi_questions, proposals>>
       /\ \A r \in Slots :
             req'[r].kind \in {"questions", "proposal"}
             => RowsOf(tender_analysis', req'[r].user, req'[r].tenderId) # {}]_vars

\* a proposal for a tender of the user that has no analysis has been answered
\* 404 while a question generation for an analysed tender is under way
C26_Witness ==
    /\ last.req.kind = "proposal"
    /\ Owns(last.req.user, last.req.tenderId)
    /\ RowsOf(tender_analysis, last.req.user, last.req.tenderId) = {}
    /\ last.resp.status = 404
    /\ proposals = {}
    /\ \E r \in Slots : req[r].kind = "questions" /\ pc[r] = "qgenerate"

\* C27: every product that retrieval has returned for the user is among the
\* product details resolved for the generation tasks, whichever company it
\* belongs to and whichever companies retrieval has matched.
C27_EveryMatchedProductResolved ==
    [][\A r \in Slots :
          pc[r] = "retrieve" /\ pc'[r] = "generate"
          => \A i \in DOMAIN loc'[r].productIds :
                \E j \in DOMAIN loc'[r].products :
                   loc'[r].products[j] = loc'[r].productIds[i]]_vars

\* C28: on a cache hit the analysis time of the response is the time of the
\* analysis that produced the contents of the row returned, which is the time
\* the row was last written, also when that was a forced re-analysis.
C28_CacheHitReportsComputationTime ==
    [][\A r \in Slots, user \in Users, tenderId \in TenderIds :
          /\ AnalyzeStart(r, user, tenderId, FALSE)
          /\ Owns(user, tenderId)
          /\ RowsOf(tender_analysis, user, tenderId) # {}
          => /\ last'.resp.isFromCache
             /\ \E row \in RowsOf(tender_analysis, user, tenderId) :
                   /\ Returns(last'.resp, row)
                   /\ last'.resp.analyzedAt = row.updated_at]_vars

\* the users on whose behalf the step is taken: the user of the handler that
\* moves, and the user of the request that is answered
ActingUsers ==
    {req[r].user : r \in {s \in Slots : pc[s] # "idle" /\ <<pc[s], loc[s]>> # <<pc'[s], loc'[s]>>}}
    \cup {req'[r].user : r \in {s \in Slots : pc[s] = "idle" /\ pc'[s] # "idle"}}
    \cup (IF last' # last THEN {last'.req.user} ELSE {})

\* the rows of a table the step has inserted, overwritten or deleted
Touched(table, tableAfter) == (table \ tableAfter) \cup (tableAfter \ table)

\* C29: a request of user u reads, overwrites and deletes only rows of u and
\* analyses only tenders of u: every analysis, question or proposal row a step
\* inserts, overwrites or deletes belongs to the user the step is taken for and
\* to a tender of that user; every request under way is for a tender of its
\* user; and the rows a response returns are rows of the requesting user.
C29_OwnRowsOnly ==
    [][/\ \A row \in Touched(tender_analysis, tender_analysis')
                     \cup Touched(nvi_questions, nvi_questions')
                     \cup Touched(proposals, proposals') :
             row.user_id \in ActingUsers /\ Owns(row.user_id, row.tender_id)
       /\ \A r \in Slots : pc'[r] # "idle" => Owns(req'[r].user, req'[r].tenderId)
       /\ last' # last
          => /\ \A i \in DOMAIN last'.resp.questions :
                   last'.resp.questions[i].user_id = last'.req.user
             /\ \A row \in last'.resp.savedProposal : row.user_id = last'.req.user
             /\ last'.resp.isFromCache
                => \E row \in RowsOf(tender_analysis, last'.req.user, last'.req.tenderId) :
                      Returns(last'.resp, row)]_vars

\* user u2 has had its tender analysed and stored next to the analysis of
\* user u1, which is as it was
C29_Witness ==
    /\ last.req.user = "u2" /\ last.req.kind = "analyze" /\ last.resp.status = 200
    /\ EarlierAnalysis \in tender_analysis
    /\ \E row \in tender_analysis : row.user_id = "u2" /\ row.tender_id = "t2"

(***************************************************************************)
(* The decoders on their own.                                              *)
(***************************************************************************)
\* longest text of arbitrary symbols handed to a decoder
MaxLen == 3

DecoderAlphabet == {"{", "}", Q, ":", "content", "a", "null", FENCE}

ArbitraryTexts == UNION {[1..n -> DecoderAlphabet] : n \in 0..MaxLen}

WellFormedTexts ==
    { <<"{">> \o Key("content") \o Str(<<"a">>) \o <<"}">>,
      <<FENCE, "json", NL, "{">> \o Key("content") \o Str(<<"a">>) \o <<"}", NL, FENCE>>,
      <<"{">> \o Key("content") \o Str(<<"a", NL, "b">>) \o <<"}">>,
      <<"{">> \o Key("content") \o Str(<<"a">>) \o <<",", NL>>
          \o Key("table") \o <<"[", "]", "}">>,
      <<"{">> \o Key("content") \o <<"null", "}">>,
      <<"{", NL>> \o Key("title") \o Str(<<"a">>) \o <<",", NL>>
          \o Key("content") \o Str(<<"b">>) \o <<NL, "}">>,
      <<"{">> \o Key("content") \o Str(<<"a", SP, SP, "b">>) \o <<"}">>,
      <<"{">> \o Key("title") \o Str(<<"a", NL, "b">>) \o <<",">>
          \o Key("content") \o Str(<<"c">>) \o <<"}">>,
      <<"{", NL>> \o Key("content") \o Str(<<"a", NL, "b">>) \o <<",", NL>>
          \o Key("title") \o Str(<<"c">>) \o <<NL, "}">> }

DecoderTexts == ArbitraryTexts \cup WellFormedTexts

DecoderInit ==
    /\ tender_analysis = {}
    /\ Quiet
    /\ arg \in DecoderTexts
    /\ result = NoResult

\* the decoding every proposal agent applies to the answer of its task
DecodeFragment ==
    /\ result = NoResult
    /\ result' = [by |-> "safeJsonParse", raised |-> FALSE,
                  val |-> safeJsonParse(cleanJsonResponse(arg))]
    /\ UNCHANGED <<routes, arg>>

\* the decoding the analysis route applies to the answer of a task
DecodeAnalysis ==
    /\ result = NoResult
    /\ LET parsed == cleanAndParseJSON(arg) IN
       result' = [by |-> "cleanAndParseJSON", raised |-> ~parsed.ok, val |-> parsed.val]
    /\ UNCHANGED <<routes, arg>>

DecoderNext == DecodeFragment \/ DecodeAnalysis

DecoderSpec == DecoderInit /\ [][DecoderNext]_vars

\* the value has a content field that is neither undefined nor null
HasContent(val) ==
    /\ val.t = "obj"
    /\ Get(val, "content") # Undefined
    /\ Get(val, "content") # JNull

\* C7: whatever text a decoder is given, it returns without raising, and what
\* the decoder of the proposal fragments returns has a content field that is
\* not null.
C7_DecoderFloor ==
    /\ result.by = "safeJsonParse" => ~result.raised /\ HasContent(result.val)
    /\ result.by = "cleanAndParseJSON" => ~result.raised

\* C18: when the text handed to the decoder of the proposal fragments is
\* already a well-formed JSON literal, on one line or over several, the decoder
\* returns the value of that literal: no field changed, none dropped.
C18_WellFormedLiteralUnchanged ==
    result.by = "safeJsonParse" /\ JSONparse(arg).ok
    => ~result.raised /\ result.val = JSONparse(arg).val

\* the text with every line break that stands inside a string literal written
\* as the escape \n, every other character as it is
RECURSIVE BreaksEscapedFrom(_, _, _)
BreaksEscapedFrom(s, i, inString) ==
    IF i > Len(s) THEN <<>>
    ELSE IF inString /\ s[i] = BS /\ i < Len(s)
         THEN <<s[i], s[i + 1]>> \o BreaksEscapedFrom(s, i + 2, TRUE)
    ELSE IF s[i] = Q THEN <<Q>> \o BreaksEscapedFrom(s, i + 1, ~inString)
    ELSE IF inString /\ s[i] = NL THEN <<BS, "n">> \o BreaksEscapedFrom(s, i + 1, TRUE)
    ELSE <<s[i]>> \o BreaksEscapedFrom(s, i + 1, inString)

\* the record a text with line breaks inside its strings stands for
Intended(s) == JSONparse(BreaksEscapedFrom(StripFences(Trim(s)), 1, FALSE))

\* the string has a line break among its characters
HasBreak(val) == val.t = "str" /\ \E k \in 1..Len(val.v) : val.v[k] = NL

\* C19: when the text handed to the decoder of the proposal fragments is a
\* record with an unescaped line break inside a string value, the decoder
\* returns a record in which that field is a string holding the line break.
C19_LineBreakKeptAsData ==
    /\ result.by = "safeJsonParse"
    /\ ~JSONparse(StripFences(Trim(arg))).ok
    /\ Intended(arg).ok /\ Intended(arg).val.t = "obj"
    => /\ ~result.raised
       /\ \A m \in 1..Len(Intended(arg).val.v) :
             LET member == Intended(arg).val.v[m] IN
             HasBreak(member[2]) => HasBreak(Get(result.val, member[1][1]))

(***************************************************************************)
(* findRelevantCapabilities on its own.                                    *)
(***************************************************************************)
\* the namespaces findRelevantCapabilities searches, in the order it names them
Namespaces == <<"companies", "products">>

\* Math.ceil(a / b)
Ceil(a, b) == (a + b - 1) \div b

\* queries that ask every namespace for the whole count
QueriesForWholeCount(userId, topK) ==
    [i \in DOMAIN Namespaces |->
        [namespace |-> Namespaces[i], topK |-> topK, filter |-> userId]]

\* the queries findRelevantCapabilities sends: one per namespace, each for
\* Math.ceil(topK / 2) matches of records whose userId is the user's
capabilityQueries(userId, topK) ==
    [i \in DOMAIN Namespaces |->
        [namespace |-> Namespaces[i], topK |-> Ceil(topK, 2), filter |-> userId]]

\* the records of the vector index: for each namespace, the owner of each record
indexed ==
    [n \in {"companies", "products"} |->
        IF n = "companies"
        THEN [id \in {"c1", "c2", "c3", "c4"} |-> IF id = "c4" THEN "u2" ELSE "u1"]
        ELSE [id \in {"p1", "p2"} |-> IF id = "p2" THEN "u2" ELSE "u1"]]

VectorIds == DOMAIN indexed["companies"] \cup DOMAIN indexed["products"]

\* the similarity of a record to the query vector
Similarities == 1..2

\* largest topK findRelevantCapabilities is called with
MaxTopK == 3

Smaller(a, b) == IF a < b THEN a ELSE b

\* what the index can answer to a query: the topK records of the namespace that
\* pass the filter and are most similar, most similar first; the order of
\* records of the same similarity is not determined
QueryAnswers(query, score) ==
    LET eligible == {id \in DOMAIN indexed[query.namespace] :
                        indexed[query.namespace][id] = query.filter}
        n        == Smaller(query.topK, Cardinality(eligible))
        chosen   == {m \in [1..n -> eligible] :
                        /\ \A i, j \in 1..n : i < j => m[i] # m[j] /\ score[m[i]] >= score[m[j]]
                        /\ \A id \in eligible :
                              (\A i \in 1..n : m[i] # id)
                              => \A i \in 1..n : score[m[i]] >= score[id]}
    IN {[i \in 1..n |-> [id |-> m[i], score |-> score[m[i]]]] : m \in chosen}

\* a query that was not sent
NotAsked == <<"<not asked>">>

RetrievalInputs ==
    [userId : Users, topK : 1..MaxTopK, embedded : BOOLEAN,
     up : [{"companies", "products"} -> BOOLEAN], score : [VectorIds -> Similarities]]

RetrievalInit ==
    /\ tender_analysis = {}
    /\ Quiet
    /\ arg \in RetrievalInputs
    /\ result = NoResult

\* what the query of a namespace comes back with: nothing when it was not
\* sent, an error when the namespace cannot be reached, else an answer
QueryOutcomes(query) ==
    IF ~arg.embedded THEN {NotAsked}
    ELSE IF ~arg.up[query.namespace] THEN {Unreachable}
    ELSE QueryAnswers(query, arg.score)

\* findRelevantCapabilities(tenderRequirements, arg.userId, arg.topK): raised is
\* the error it rethrows
FindRelevantCapabilities(companyResults, productResults) ==
    /\ result = NoResult
    /\ LET queries == capabilityQueries(arg.userId, arg.topK) IN
       /\ companyResults \in QueryOutcomes(queries[1])
       /\ productResults \in QueryOutcomes(queries[2])
       /\ result' =
             IF ~arg.embedded
             THEN [by |-> "findRelevantCapabilities", raised |-> TRUE,
                   queries |-> <<>>, companies |-> <<>>, products |-> <<>>]
             ELSE IF ~arg.up["companies"] \/ ~arg.up["products"]
             THEN [by |-> "findRelevantCapabilities", raised |-> TRUE,
                   queries |-> queries, companies |-> <<>>, products |-> <<>>]
             ELSE [by |-> "findRelevantCapabilities", raised |-> FALSE,
                   queries |-> queries,
                   companies |-> companyResults, products |-> productResults]
    /\ UNCHANGED <<routes, arg>>

RetrievalNext ==
    \E companyResults \in QueryOutcomes(capabilityQueries(arg.userId, arg.topK)[1]),
       productResults \in QueryOutcomes(capabilityQueries(arg.userId, arg.topK)[2]) :
        FindRelevantCapabilities(companyResults, productResults)

RetrievalSpec == RetrievalInit /\ [][RetrievalNext]_vars

\* C14: for a target count K and the M = 2 namespaces, retrieval sends one
\* query per namespace, in the order of the namespaces, each asking for
\* ceil(K / M) matches and each filtered to the records of the requesting
\* user; what it returns is within those limits.  (No query is sent when the
\* embedding of the request text could not be made.)
C14_OneQueryPerPartition ==
    result.by = "findRelevantCapabilities"
    => LET M == Len(Namespaces)
           K == arg.topK
       IN /\ Len(result.queries) = (IF arg.embedded THEN M ELSE 0)
          /\ \A i \in 1..Len(result.queries) :
                /\ result.queries[i].namespace = Namespaces[i]
                /\ result.queries[i].topK * M >= K
                /\ (result.queries[i].topK - 1) * M < K
                /\ result.queries[i].filter = arg.userId
          /\ \A n \in {"companies", "products"} :
                /\ Len(result[n]) * M < K + M
                /\ \A i \in 1..Len(result[n]) :
                      indexed[n][result[n][i].id] = arg.userId

\* retrieval has returned, for an odd count, fewer matches of a namespace than
\* the namespace holds for the user
C14_Witness ==
    /\ result.by = "findRelevantCapabilities" /\ ~result.raised
    /\ arg.topK = 3 /\ arg.userId = "u1"
    /\ Len(result.queries) = 2
    /\ Len(result.companies) = 2 /\ Len(result.products) = 1

\* the matches of a result in the order the result presents them: the
\* namespaces in the order of their declaration, each in the order the index
\* answered
Presented(res) == res.companies \o res.products

\* C15: the matches retrieval returns form one list ordered by similarity,
\* highest first, where matches of equal similarity are in the order of their
\* namespaces and, within a namespace, in the order the index answered.
C15_MergedBySimilarity ==
    result.by = "findRelevantCapabilities" /\ ~result.raised
    => LET merged == Presented(result) IN
       \A i, j \in 1..Len(merged) : i < j => merged[i].score >= merged[j].score

(***************************************************************************)
(* The scoring of a question on its own.                                   *)
(***************************************************************************)
\* largest priorityScore the backend writes
MaxScore == 15

Factors == 0..MaxFactor

ScoredQuestions ==
    {Question("A", ko, meat, euro, time, evidence, priority) :
        ko \in Factors, meat \in Factors, euro \in Factors, time \in Factors,
        evidence \in Factors, priority \in 0..MaxScore}

ScoreInit ==
    /\ tender_analysis = {}
    /\ Quiet
    /\ arg \in ScoredQuestions
    /\ result = NoResult

\* the row a question becomes and the label the proposal view shows for it
ScoreQuestion ==
    /\ result = NoResult
    /\ LET q   == JSONparse(arg).val
           row == questionToSave("u1", "t1", q)
       IN result' = [by |-> "score", row |-> row,
                     label |-> getPriorityLabel(row.priority_score)]
    /\ UNCHANGED <<routes, arg>>

ScoreNext == ScoreQuestion

ScoreSpec == ScoreInit /\ [][ScoreNext]_vars

\* C10: for a question whose five factors are each in 0..3, the stored total
\* is the sum of the five factors, and the label is HIGH when the total is at
\* least 6, MEDIUM when it is 4 or 5, LOW when it is below 4.
C10_TotalIsSumOfFactors ==
    result.by = "score"
    => /\ \A c \in FactorColumns : result.row[c] \in 0..3
       /\ result.row.priority_score = FactorSum(result.row)
       /\ result.label = "HIGH" <=> result.row.priority_score >= 6
       /\ result.label = "MEDIUM" <=> result.row.priority_score \in {4, 5}
       /\ result.label = "LOW" <=> result.row.priority_score < 4

=============================================================================
